---- MODULE Spec2Model ----
(***************************************************************************)
(* Image-Builder: the image-construction pipeline of build.py.             *)
(*                                                                         *)
(* One build is one run of main(): format_blank, extract_into,             *)
(* activate_modules (run_modules under a mounted root) and ec2_convert.    *)
(* Every external command (util.subp) and every file-system operation that *)
(* can fail is a step whose outcome the environment chooses.  The `with'   *)
(* blocks (cmd_undo, util.tempdir) are a stack of pending exit handlers    *)
(* that is popped on normal exit of the block and while an exception       *)
(* propagates.                                                             *)
(***************************************************************************)
EXTENDS Integers, Sequences, FiniteSets, TLC

VARIABLES
    config,       \* the loaded build configuration (a function from keys)
    options,      \* the command-line options strip_parts, compress, fs_type
    pc,           \* the statement main() (or the stage it called) is at
    stage,        \* the function being executed
    status,       \* the orchestrator's state: INIT .. PACKAGED/ABORTED/FATAL
    exc,          \* the exception propagating ("none" when there is none)
    bodyExc,      \* the first exception the current stage raised ("none")
    undo,         \* the stack of exit handlers of the open `with' blocks
    devname,      \* the stage's local: the device create_loopback returned
    liveLoops,    \* the loop devices that are mapped
    liveMounts,   \* the mounts that are live: [dir, dev]
    scratch,      \* the scratch directories (mkdtemp) that exist
    wiped,        \* TRUE once rmtree ran over a live mount of the image root
    mods,         \* run_modules: the list popped from the configuration
    idx,          \* run_modules: the number of entries of mods consumed
    which_ran,    \* run_modules: the names attempted
    failures,     \* run_modules: the names that failed
    attempts,     \* the positions of mods whose module was attempted
    rm_config,    \* run_modules: its local `config' object: [id, val]
    module_cfg,   \* run_modules: the cfg modify got, and as modify left it
    boot,         \* ec2_convert: the file kinds found (fns) in <root>/boot
    rd_k,         \* ec2_convert: <<rd_fn found, k_fn found>>
    outputs,      \* the files in ec2_convert's img_dir: [name, md5s]
    out_fn,       \* what exists at the output path: absent/tarball/directory
    exit_status,  \* the exit status the caller of the process sees
    last_subp,    \* the last util.subp call: what ran and what came of it
    fstab,        \* the lines of etc/fstab in the root of the image
    hf,           \* one call of hash_file, on its own: see SpecHash
    dl,           \* the tarball downloader and its cache: see SpecDownload
    vx,           \* the packaging runs' libvirt.xml: see SpecVirtXml
    rpm,          \* one call of install_rpms.modify: see SpecRpms
    calls,        \* the calls and returns of the stages: [op, stage]
    log           \* the resource commands of the stage: [op, stage, arg, ok]

buildVars == <<config, options, pc, stage, status, exc, bodyExc, undo, devname,
               liveLoops, liveMounts, scratch, wiped, mods, idx, which_ran,
               failures, attempts, rm_config, module_cfg, boot, rd_k,
               outputs, out_fn, exit_status, last_subp, fstab, calls, log>>

vars == <<buildVars, hf, dl, vx, rpm>>

----------------------------------------------------------------------------
(* Bounds of the model.                                                    *)

\* the longest module list of the configuration
MaxMods == 2

\* the longest list of rpms a configuration gives install_rpms
MaxRpms == 3

\* the largest exit code an external command returns
MaxRc == 2

\* the length of the long module list of InitManyModules
ManyMods == 256

\* the longest file hash_file is given, in bytes
MaxFileLen == 3

\* the number of bytes pipe_in_out reads at a time (1024 in util.py)
ChunkSize == 2

----------------------------------------------------------------------------
(* Names.  A module name is a sequence of pieces: a white-space character, *)
(* a dash, an underscore, or a word without any of them.                   *)

Whitespace == {" ", "\t"}

NameChoices ==
    { <<>>,
      <<" ">>,
      <<" ", "add", "-", "user", "\t">>,
      <<"nosuch">> }

\* the modules of the package builder.modules
KnownModules == { <<"add", "_", "user">>, <<"install", "_", "rpms">> }

ModLists == UNION { [1..n -> NameChoices] : n \in 0..MaxMods }

\* str.strip(): the name without its leading and trailing white space
RECURSIVE lstrip(_)
lstrip(s) ==
    IF s # <<>> /\ Head(s) \in Whitespace THEN lstrip(Tail(s)) ELSE s

RECURSIVE rstrip(_)
rstrip(s) ==
    IF s # <<>> /\ s[Len(s)] \in Whitespace
    THEN rstrip(SubSeq(s, 1, Len(s) - 1))
    ELSE s

strip(s) == rstrip(lstrip(s))

\* str.replace('-', '_')
replace_dash(s) == [i \in 1..Len(s) |-> IF s[i] = "-" THEN "_" ELSE s[i]]

module_name_unstripped(real_name) == replace_dash(real_name)

\* run_modules: name = real_name.strip(); name = name.replace('-', '_')
module_name(real_name) == replace_dash(strip(real_name))

----------------------------------------------------------------------------
(* External commands.                                                      *)

\* what running a command can come to: it cannot be started (OSError), or
\* it exits with a code
ProcOutcomes ==
    [started : {TRUE}, rc : 0..MaxRc] \cup {[started |-> FALSE, rc |-> 0]}

\* util.subp: the return codes allowed when the caller gives none
DefaultRcs == {0}

\* format_blank: the return codes allowed to fdisk
FdiskRcs == {0, 1}

subp_any_rc(o, rcs) == o.started

\* util.subp returns normally (TRUE) or raises ProcessExecutionError (FALSE)
subp(o, rcs) == o.started /\ o.rc \in rcs

\* ProcessExecutionError.exit_code when no integer is given: '-'
NoExitCode == -1

NoError == [cmd |-> "", exit_code |-> NoExitCode]

\* the error util.subp raises: ProcessExecutionError(exit_code=rc, cmd=args)
\* after the process ran, ProcessExecutionError(cmd=args, reason=e) when
\* Popen raised OSError
ProcessExecutionError(cmd, o) ==
    [cmd |-> cmd, exit_code |-> IF o.started THEN o.rc ELSE NoExitCode]

NoCall ==
    [cmd |-> "", started |-> FALSE, rc |-> 0, returned |-> FALSE,
     error |-> NoError]

\* util.subp(cmd, rcs=rcs) when the process comes to o
Ran(cmd, o, rcs) ==
    [cmd |-> cmd, started |-> o.started, rc |-> o.rc,
     returned |-> subp(o, rcs),
     error |-> IF subp(o, rcs) THEN NoError
               ELSE ProcessExecutionError(cmd, o)]

\* the loop device nodes, in the order `losetup -f' searches them
LoopNames ==
    << "/dev/loop0", "/dev/loop1", "/dev/loop2", "/dev/loop3",
       "/dev/loop4", "/dev/loop5", "/dev/loop6", "/dev/loop7" >>

\* losetup --show -f: the first device that is not mapped
FirstFree(live) ==
    LoopNames[CHOOSE i \in 1..Len(LoopNames) :
                 /\ LoopNames[i] \notin live
                 /\ \A j \in 1..(i - 1) : LoopNames[j] \in live]

Event(op, arg, ok) == [op |-> op, stage |-> stage, arg |-> arg, ok |-> ok]

----------------------------------------------------------------------------
(* The `with' blocks.                                                      *)

\* the handler that runs when the innermost open block is left
Top(stack) == stack[Len(stack)]

Pop(stack) == SubSeq(stack, 1, Len(stack) - 1)

Push_outermost(stack, h) == <<h>> \o stack

\* a `with' block is entered inside the blocks that are open
Push(stack, h) == Append(stack, h)

guard_entered_anyway(ok, stack, h) == Push(stack, h)

\* `with cmd_undo(...)' stands after the statement that acquires: the block
\* is entered only when that statement returned
guard(ok, stack, h) == IF ok THEN Push(stack, h) ELSE stack

\* the statement after each `with' block that is left normally
after_with ==
    [ fb_with1 |-> "fb_losetup2",
      fb_with2 |-> "return",
      ei_with_umount |-> "ei_with_losetup",
      ei_with_losetup |-> "ei_with_tempdir",
      ei_with_tempdir |-> "return",
      am_with_umount |-> "am_with_losetup",
      am_with_losetup |-> "am_with_tempdir",
      am_with_tempdir |-> "return",
      ec_with_umount |-> "ec_dd_off",
      ec_with_losetup |-> "ec_replace_raw",
      ec_with_tempdir |-> "return" ]

WithExits == DOMAIN after_with

\* an exception leaves the statement at `site': the open blocks are left
Raises(site) ==
    /\ exc' = site
    /\ bodyExc' = site
    /\ pc' = "unwind"

NoRaise(next) ==
    /\ pc' = next
    /\ UNCHANGED <<exc, bodyExc>>

inputVars == <<config, options>>
resVars == <<liveLoops, liveMounts, scratch, wiped>>
modVars ==
    <<mods, idx, which_ran, failures, attempts, rm_config, module_cfg>>
ecVars == <<boot, rd_k, outputs, out_fn>>

\* a statement at `at' that either completes (and goes to `next') or raises,
\* and changes nothing else
Plain(at, ok, next) ==
    /\ pc = at
    /\ IF ok THEN NoRaise(next) ELSE Raises(at)
    /\ UNCHANGED <<inputVars, stage, status, undo, devname, resVars, modVars,
                   ecVars, exit_status, calls, log,
                   last_subp,
                   fstab, hf, dl, vx, rpm>>

\* util.subp(cmd, rcs=rcs) at `at', and nothing else
Command(at, cmd, rcs, next) ==
    /\ pc = at
    /\ \E o \in ProcOutcomes :
          /\ last_subp' = Ran(cmd, o, rcs)
          /\ IF subp(o, rcs) THEN NoRaise(next) ELSE Raises(at)
    /\ UNCHANGED <<inputVars, stage, status, undo, devname, resVars, modVars,
                   ecVars, exit_status, calls, log,
                   fstab, hf, dl, vx, rpm>>

\* devname = create_loopback(...) followed by nothing that can fail before
\* `with cmd_undo(['losetup', '-d', devname])'
create_loopback(at, guarded, next) ==
    /\ pc = at
    /\ \E o \in ProcOutcomes :
          LET ok == subp(o, DefaultRcs)
              dev == FirstFree(liveLoops)
          IN  /\ last_subp' = Ran("losetup", o, DefaultRcs)
              /\ undo' = IF guarded
                         THEN guard(ok, undo, [cmd |-> "losetup -d",
                                               arg |-> dev])
                         ELSE undo
              /\ IF ok
                 THEN /\ devname' = dev
                      /\ liveLoops' = liveLoops \cup {dev}
                      /\ log' = Append(log, Event("losetup", dev, TRUE))
                      /\ NoRaise(next)
                 ELSE /\ log' = Append(log, Event("losetup", "", FALSE))
                      /\ Raises(at)
                      /\ UNCHANGED <<devname, liveLoops>>
    /\ UNCHANGED <<inputVars, stage, status, liveMounts, scratch, wiped,
                   modVars, ecVars, exit_status, calls,
                   fstab, hf, dl, vx, rpm>>

\* `with cmd_undo(undo_how)' is left: the command runs, and whatever it
\* raises is dropped
cmd_undo ==
    /\ undo # <<>>
    /\ Top(undo).cmd \in {"losetup -d", "umount"}
    /\ pc = "unwind" \/ pc \in WithExits
    /\ \E o \in ProcOutcomes :
          LET ok == subp(o, DefaultRcs)
              h == Top(undo)
          IN  /\ liveLoops' = IF h.cmd = "losetup -d" /\ ok
                              THEN liveLoops \ {h.arg}
                              ELSE liveLoops
              /\ liveMounts' = IF h.cmd = "umount" /\ ok
                               THEN {m \in liveMounts : m.dir # h.arg}
                               ELSE liveMounts
              /\ log' = Append(log, Event(h.cmd, h.arg, ok))
              /\ last_subp' = Ran(h.cmd, o, DefaultRcs)
    /\ undo' = Pop(undo)
    /\ pc' = IF pc = "unwind" THEN "unwind" ELSE after_with[pc]
    /\ UNCHANGED <<inputVars, stage, status, exc, bodyExc, devname, scratch,
                   wiped, modVars, ecVars, exit_status, calls,
                   fstab, hf, dl, vx, rpm>>

\* util.tempdir: tdir = tempfile.mkdtemp(); the block is entered
mkdtemp(at, next) ==
    /\ pc = at
    /\ \E ok \in BOOLEAN :
          IF ok
          THEN /\ scratch' = scratch \cup {stage}
               /\ undo' = Push(undo, [cmd |-> "del_dir", arg |-> stage])
               /\ NoRaise(next)
          ELSE /\ Raises(at)
               /\ UNCHANGED <<scratch, undo>>
    /\ UNCHANGED <<inputVars, stage, status, devname, liveLoops, liveMounts,
                   wiped, modVars, ecVars, exit_status, calls, log,
                   last_subp,
                   fstab, hf, dl, vx, rpm>>

\* util.tempdir is left: del_dir(tdir), that is shutil.rmtree(tdir).  Over a
\* live mount below tdir it deletes the mounted files and then fails to
\* remove the mount point, and the OSError replaces what was propagating;
\* ec2_convert's img_dir is below tdir unless it was moved to out_fn
tempdir_exit ==
    /\ undo # <<>>
    /\ Top(undo).cmd = "del_dir"
    /\ pc = "unwind" \/ pc \in WithExits
    /\ LET h == Top(undo)
           busy == \E m \in liveMounts : m.dir = h.arg
       IN  /\ wiped' = (wiped \/ busy)
           /\ scratch' = IF busy THEN scratch ELSE scratch \ {h.arg}
           /\ \E img_removed \in BOOLEAN :
                 outputs' = IF h.arg = "ec2_convert" /\ (~busy \/ img_removed)
                            THEN {}
                            ELSE outputs
           /\ log' = Append(log, Event("del_dir", h.arg, ~busy))
           /\ exc' = IF busy THEN "del_dir" ELSE exc
           /\ pc' = IF busy \/ pc = "unwind" THEN "unwind" ELSE after_with[pc]
    /\ undo' = Pop(undo)
    /\ UNCHANGED <<inputVars, stage, status, bodyExc, devname, liveLoops,
                   liveMounts, modVars, boot, rd_k, out_fn, exit_status,
                   calls,
                   last_subp,
                   fstab, hf, dl, vx, rpm>>

\* util.subp(['mount', devname, root_dir]) followed by
\* `with cmd_undo(['umount', root_dir])'
mount(at, next) ==
    /\ pc = at
    /\ \E o \in ProcOutcomes :
          LET ok == subp(o, DefaultRcs)
          IN  /\ log' = Append(log, Event("mount", stage, ok))
              /\ last_subp' = Ran("mount", o, DefaultRcs)
              /\ undo' = guard(ok, undo, [cmd |-> "umount", arg |-> stage])
              /\ IF ok
                 THEN /\ liveMounts' = liveMounts \cup
                                         {[dir |-> stage, dev |-> devname]}
                      /\ NoRaise(next)
                 ELSE /\ Raises(at)
                      /\ UNCHANGED liveMounts
    /\ UNCHANGED <<inputVars, stage, status, devname, liveLoops, scratch,
                   wiped, modVars, ecVars, exit_status, calls,
                   fstab, hf, dl, vx, rpm>>

----------------------------------------------------------------------------
(* format_blank                                                            *)

\* the file is opened and truncated, then qemu-img create
fb_qemu_img_create ==
    \/ Plain("fb_qemu_img_create", FALSE, "fb_losetup1")
    \/ Command("fb_qemu_img_create", "qemu-img create", DefaultRcs,
               "fb_losetup1")

fb_losetup1 == create_loopback("fb_losetup1", TRUE, "fb_fdisk")

fb_fdisk == Command("fb_fdisk", "fdisk", FdiskRcs, "fb_with1")

fb_losetup2 == create_loopback("fb_losetup2", TRUE, "fb_mkfs")

fb_mkfs == Command("fb_mkfs", "mkfs", DefaultRcs, "fb_with2")

format_blank ==
    \/ fb_qemu_img_create
    \/ fb_losetup1
    \/ fb_fdisk
    \/ fb_losetup2
    \/ fb_mkfs

----------------------------------------------------------------------------
(* extract_into                                                            *)

ei_mkdtemp == mkdtemp("ei_mkdtemp", "ei_download")

\* arch_fn = tb_down.download()
ei_download ==
    \E ok \in BOOLEAN : Plain("ei_download", ok, "ei_losetup")

ei_losetup == create_loopback("ei_losetup", TRUE, "ei_makedirs")

ei_makedirs ==
    \E ok \in BOOLEAN : Plain("ei_makedirs", ok, "ei_mount")

ei_mount == mount("ei_mount", "ei_tar")

\* what the tarball can hold at etc/fstab: nothing, or lines of its own
TarballFstabs == { <<>>, <<"/dev/sda1 / ext3 defaults 1 1">> }

\* tar -xzf arch_fn -C root_dir: whether it fails or not it can have written
\* the tarball's etc/fstab
ei_tar ==
    /\ pc = "ei_tar"
    /\ \E o \in ProcOutcomes, t \in TarballFstabs :
          /\ last_subp' = Ran("tar", o, DefaultRcs)
          /\ fstab' = t
          /\ log' = Append(log, Event("tar", IF t = <<>> THEN "" ELSE "fstab",
                                      subp(o, DefaultRcs)))
          /\ IF subp(o, DefaultRcs)
             THEN NoRaise("ei_fix_fstab")
             ELSE Raises("ei_tar")
    /\ UNCHANGED <<inputVars, stage, status, undo, devname, resVars, modVars,
                   ecVars, exit_status, calls, hf, dl, vx, rpm>>

\* util.time_rfc2822() at the time of the build
time_rfc2822 == "Tue, 03 Nov 2026 12:00:00 +0000"

RECURSIVE spaces(_)
spaces(n) == IF n <= 0 THEN "" ELSE " " \o spaces(n - 1)

ljust(s, width) == s \o spaces(width - Len(s))

\* '%<width>s' % s: s after the spaces that fill it up to the width
rjust(s, width) == spaces(width - Len(s)) \o s

\* the lines fix_fstab writes:
\* '%s%14s%14s%14s%14s%6s' % ('LABEL=root', '/', fstype, 'defaults', '0', '0')
fstab_lines(fstype) ==
    << "# Generated on " \o time_rfc2822,
       "LABEL=root" \o rjust("/", 14) \o rjust(fstype, 14)
           \o rjust("defaults", 14) \o rjust("0", 14) \o rjust("0", 6) >>

\* fix_fstab(root_dir, fs_type): util.write_file(<root>/etc/fstab, ...)
ei_fix_fstab ==
    /\ pc = "ei_fix_fstab"
    /\ \E ok \in BOOLEAN :
          IF ok
          THEN /\ fstab' = fstab_lines(options.fs_type)
               /\ NoRaise("ei_with_umount")
          ELSE /\ Raises("ei_fix_fstab")
               /\ UNCHANGED fstab
    /\ UNCHANGED <<inputVars, stage, status, undo, devname, resVars, modVars,
                   ecVars, exit_status, last_subp, calls, log, hf, dl, vx, rpm>>

extract_into ==
    \/ ei_mkdtemp
    \/ ei_download
    \/ ei_losetup
    \/ ei_makedirs
    \/ ei_mount
    \/ ei_tar
    \/ ei_fix_fstab

----------------------------------------------------------------------------
(* activate_modules and run_modules                                        *)

am_mkdtemp == mkdtemp("am_mkdtemp", "am_losetup")

am_losetup == create_loopback("am_losetup", TRUE, "am_makedirs")

am_makedirs ==
    \E ok \in BOOLEAN : Plain("am_makedirs", ok, "am_mount")

am_mount == mount("am_mount", "run_modules")

\* mods = config.pop('modules', None); if not mods: mods = []
popped_modules(cfg) ==
    IF "modules" \in DOMAIN cfg THEN cfg["modules"] ELSE <<>>

\* the dictionary config.pop('modules', None) leaves
without_modules(cfg) == [k \in DOMAIN cfg \ {"modules"} |-> cfg[k]]

\* A configuration object is [id, val]: two names with the same id are the
\* same dictionary, and a change made through one is seen through the other.
\* The dictionary main() loaded is the variable config.
LoadedId == 1

NoObject == [id |-> 0, val |-> <<>>]

NoArgs == [given |-> <<>>, left |-> <<>>]

deepcopy_same_object(o) == o

\* copy.deepcopy(o): an equal value in a new object
deepcopy(o) == [id |-> o.id + 1, val |-> o.val]

\* the dictionary main() holds once the object `o' has been given value v
seen_by_main(o, v) == IF o.id = LoadedId THEN v ELSE config

\* what a module can do to the cfg it is given: nothing, or empty every entry
ModuleEdits(v) == {v, [k \in DOMAIN v |-> <<>>]}

\* config = copy.deepcopy(config); mods = config.pop('modules', None)
rm_begin ==
    /\ pc = "run_modules"
    /\ LET local == deepcopy([id |-> LoadedId, val |-> config])
       IN  /\ mods' = popped_modules(local.val)
           /\ rm_config' = [local EXCEPT !.val = without_modules(local.val)]
           /\ config' = seen_by_main(local, without_modules(local.val))
    /\ idx' = 0
    /\ which_ran' = <<>>
    /\ failures' = <<>>
    /\ attempts' = <<>>
    /\ module_cfg' = NoArgs
    /\ pc' = "rm_loop"
    /\ UNCHANGED <<options, stage, status, exc, bodyExc, undo, devname,
                   resVars, ecVars, exit_status, calls, log,
                   last_subp,
                   fstab, hf, dl, vx, rpm>>

ModuleResults_unresolved_skipped(name) ==
    IF name \in KnownModules THEN {"ok", "error"} ELSE {"ok"}

\* what importing builder.modules.<name> and calling its modify can come to:
\* a name the package does not resolve has no module (ImportError) or a
\* module without modify (AttributeError)
ModuleResults(name) ==
    IF name \in KnownModules
    THEN {"ok", "error"}
    ELSE {"ImportError", "AttributeError"}

after_module_break(i, failed, n) == IF failed THEN n ELSE i

\* the number of entries consumed once the module of entry i of n has
\* failed or not: the `except' clause records the failure and the loop goes
\* on with entry i + 1
after_module(i, failed, n) == i

\* one entry of `for real_name in mods'
rm_step ==
    /\ pc = "rm_loop"
    /\ idx < Len(mods)
    /\ LET real_name == mods[idx + 1]
           name == module_name(real_name)
           arg == deepcopy(rm_config)
       IN  IF name = <<>>
           THEN /\ idx' = idx + 1
                /\ UNCHANGED <<which_ran, failures, attempts, config,
                               rm_config, module_cfg>>
           ELSE /\ which_ran' = Append(which_ran, real_name)
                /\ attempts' = Append(attempts, idx + 1)
                /\ \E r \in ModuleResults(name) :
                      /\ failures' = IF r = "ok"
                                     THEN failures
                                     ELSE Append(failures, real_name)
                      /\ idx' = after_module(idx + 1, r # "ok", Len(mods))
                      /\ IF r \in {"ok", "error"}
                         THEN \E v \in ModuleEdits(arg.val) :
                                 /\ module_cfg' = [given |-> arg.val,
                                                   left |-> v]
                                 /\ rm_config' =
                                       IF arg.id = rm_config.id
                                       THEN [rm_config EXCEPT !.val = v]
                                       ELSE rm_config
                                 /\ config' = seen_by_main(arg, v)
                         ELSE /\ module_cfg' = NoArgs
                              /\ UNCHANGED <<config, rm_config>>
    /\ UNCHANGED <<options, pc, stage, status, exc, bodyExc, undo, devname,
                   resVars, mods, ecVars, exit_status, calls, log,
                   last_subp,
                   fstab, hf, dl, vx, rpm>>

\* return (which_ran, failures), from inside the `with' blocks
rm_return ==
    /\ pc = "rm_loop"
    /\ idx >= Len(mods)
    /\ module_cfg' = NoArgs
    /\ pc' = "am_with_umount"
    /\ UNCHANGED <<inputVars, stage, status, exc, bodyExc, undo, devname,
                   resVars, mods, idx, which_ran, failures, attempts,
                   rm_config, ecVars, exit_status, calls, log,
                   last_subp,
                   fstab, hf, dl, vx, rpm>>

run_modules ==
    \/ rm_begin
    \/ rm_step
    \/ rm_return

activate_modules ==
    \/ am_mkdtemp
    \/ am_losetup
    \/ am_makedirs
    \/ am_mount
    \/ run_modules

----------------------------------------------------------------------------
(* ec2_convert                                                             *)

\* a file of img_dir: its name without the ".md5" suffixes, and their number
File(name) == [name |-> name, md5s |-> 0]

\* hash_fn = src_fn + "." + HASH_ROUTINE
Sidecar(f) == [name |-> f.name, md5s |-> f.md5s + 1]

Sidecars_rescanned(listed) ==
    {Sidecar(f) : f \in listed} \cup {Sidecar(Sidecar(f)) : f \in listed}

\* the files the loop over the list os.listdir(img_dir) returned writes
Sidecars(listed) == {Sidecar(f) : f \in listed}

Absent == [kind |-> "absent", files |-> {}]

\* devname = create_loopback(raw_fn, PART_OFFSET), with no handler yet
ec_losetup == create_loopback("ec_losetup", FALSE, "ec_mkdtemp")

ec_mkdtemp == mkdtemp("ec_mkdtemp", "ec_ensure_dirs")

\* util.ensure_dirs([img_dir, root_dir]), then
\* `with cmd_undo(['losetup', '-d', devname])' is entered
ec_ensure_dirs ==
    /\ pc = "ec_ensure_dirs"
    /\ \E ok \in BOOLEAN :
          IF ok
          THEN /\ undo' = Push(undo, [cmd |-> "losetup -d",
                                      arg |-> devname])
               /\ NoRaise("ec_mount")
          ELSE /\ Raises("ec_ensure_dirs")
               /\ UNCHANGED undo
    /\ UNCHANGED <<inputVars, stage, status, devname, resVars, modVars,
                   ecVars, exit_status, calls, log,
                   last_subp,
                   fstab, hf, dl, vx, rpm>>

ec_mount == mount("ec_mount", "ec_listdir")

BootKinds == {"ramdisk", "kernel", "base"}

\* for fn in os.listdir(<root>/boot): fns[...] = fn
ec_listdir ==
    /\ pc = "ec_listdir"
    /\ \/ /\ Raises("ec_listdir")
          /\ UNCHANGED <<boot, rd_k>>
       \/ \E fns \in SUBSET BootKinds :
             /\ boot' = fns
             /\ rd_k' = <<"ramdisk" \in fns, "kernel" \in fns>>
             /\ NoRaise(IF "ramdisk" \notin fns /\ "kernel" \notin fns
                           /\ "base" \in fns
                        THEN "ec_mkinitrd"
                        ELSE "ec_check")
    /\ UNCHANGED <<inputVars, stage, status, undo, devname, resVars, modVars,
                   outputs, out_fn, exit_status, calls, log,
                   last_subp,
                   fstab, hf, dl, vx, rpm>>

\* chroot root_dir /sbin/mkinitrd -f /boot/<base> <kid>, then the two
\* os.path.isfile tests
ec_mkinitrd ==
    /\ pc = "ec_mkinitrd"
    /\ \E o \in ProcOutcomes :
          /\ log' = Append(log, Event("mkinitrd", "", subp(o, DefaultRcs)))
          /\ last_subp' = Ran("mkinitrd", o, DefaultRcs)
          /\ IF subp(o, DefaultRcs)
             THEN /\ \E rd \in BOOLEAN, k \in BOOLEAN : rd_k' = <<rd, k>>
                  /\ NoRaise("ec_check")
             ELSE /\ Raises("ec_mkinitrd")
                  /\ UNCHANGED rd_k
    /\ UNCHANGED <<inputVars, stage, status, undo, devname, resVars, modVars,
                   boot, outputs, out_fn, exit_status, calls,
                   fstab, hf, dl, vx, rpm>>

ec_check_ramdisk_only == Plain("ec_check", rd_k[1], "ec_move_rd")

\* if not rd_fn: raise ...; if not k_fn: raise ...
ec_check == Plain("ec_check", rd_k[1] /\ rd_k[2], "ec_move_rd")

\* a step that writes `files' into img_dir, or raises
Produce(at, ok, files, next) ==
    /\ pc = at
    /\ IF ok
       THEN /\ outputs' = outputs \cup files
            /\ NoRaise(next)
       ELSE /\ Raises(at)
            /\ UNCHANGED outputs
    /\ UNCHANGED <<inputVars, stage, status, undo, devname, resVars, modVars,
                   boot, rd_k, out_fn, exit_status, calls, log,
                   last_subp,
                   fstab, hf, dl, vx, rpm>>

ec_move_rd ==
    \E ok \in BOOLEAN :
        Produce("ec_move_rd", ok, {File("ramdisk")}, "ec_move_k")

ec_move_k ==
    \E ok \in BOOLEAN :
        Produce("ec_move_k", ok, {File("kernel")}, "ec_with_umount")

\* if strip_partition: part_stripped_fn = dd_off(devname, tdir)
ec_dd_off ==
    IF options.strip_parts
    THEN Command("ec_dd_off", "dd", DefaultRcs, "ec_with_losetup")
    ELSE Plain("ec_dd_off", TRUE, "ec_with_losetup")

\* if strip_partition: shutil.move(part_stripped_fn, raw_fn)
ec_replace_raw ==
    \E ok \in BOOLEAN :
        Plain("ec_replace_raw", ~options.strip_parts \/ ok, "ec_tune2fs")

ec_tune2fs ==
    Command("ec_tune2fs", "tune2fs", DefaultRcs, "ec_straight_convert")

\* straight_convert(raw_fn, img_fn, out_fmt)
ec_straight_convert ==
    /\ pc = "ec_straight_convert"
    /\ \E o \in ProcOutcomes :
          /\ last_subp' = Ran("qemu-img convert", o, DefaultRcs)
          /\ IF subp(o, DefaultRcs)
             THEN /\ outputs' = outputs \cup {File("image")}
                  /\ NoRaise("ec_virt_xml")
             ELSE /\ Raises("ec_straight_convert")
                  /\ UNCHANGED outputs
    /\ UNCHANGED <<inputVars, stage, status, undo, devname, resVars, modVars,
                   boot, rd_k, out_fn, exit_status, calls, log,
                   fstab, hf, dl, vx, rpm>>

\* util.write_file(<img_dir>/libvirt.xml, make_virt_xml(...))
ec_virt_xml ==
    \E ok \in BOOLEAN :
        Produce("ec_virt_xml", ok, {File("libvirt.xml")}, "ec_hash_files")

\* for fn in os.listdir(img_dir): hash_file(src_fn, src_fn + ".md5", ...)
ec_hash_files ==
    \E ok \in BOOLEAN :
        Produce("ec_hash_files", ok, Sidecars(outputs),
                "ec_deliver")

\* if compress: every file of img_dir goes into the tarball out_fn;
\* else: shutil.move(img_dir, out_fn)
ec_deliver ==
    /\ pc = "ec_deliver"
    /\ \E ok \in BOOLEAN :
          IF ok
          THEN /\ out_fn' = [kind |-> IF options.compress
                                      THEN "tarball"
                                      ELSE "directory",
                             files |-> outputs]
               /\ outputs' = IF options.compress THEN outputs ELSE {}
               /\ NoRaise("ec_with_tempdir")
          ELSE /\ \E partial \in BOOLEAN :
                     out_fn' = IF partial
                               THEN [kind |-> IF options.compress
                                              THEN "tarball"
                                              ELSE "directory",
                                     files |-> {}]
                               ELSE out_fn
               /\ Raises("ec_deliver")
               /\ UNCHANGED outputs
    /\ UNCHANGED <<inputVars, stage, status, undo, devname, resVars, modVars,
                   boot, rd_k, exit_status, calls, log,
                   last_subp,
                   fstab, hf, dl, vx, rpm>>

ec2_convert ==
    \/ ec_losetup
    \/ ec_mkdtemp
    \/ ec_ensure_dirs
    \/ ec_mount
    \/ ec_listdir
    \/ ec_mkinitrd
    \/ ec_check
    \/ ec_move_rd
    \/ ec_move_k
    \/ ec_dd_off
    \/ ec_replace_raw
    \/ ec_tune2fs
    \/ ec_straight_convert
    \/ ec_virt_xml
    \/ ec_hash_files
    \/ ec_deliver

----------------------------------------------------------------------------
(* hash_file, on its own: one file is hashed, and then a file that is the  *)
(* same or differs from it in one byte or in its directory.                *)

ByteValues == {10, 171}

\* the files hashed: what ec2_convert puts into img_dir is not empty
FileContents == UNION { [1..n -> ByteValues] : n \in 1..MaxFileLen }

\* paths, as their components
Paths ==
    { <<"img", "vmlinuz">>, <<"tmp", "img", "vmlinuz">>,
      <<"img", "libvirt.xml">> }

\* os.path.basename(path)
basename(path) == path[Len(path)]

HexDigits ==
    << "0", "1", "2", "3", "4", "5", "6", "7", "8", "9", "a", "b", "c", "d",
       "e", "f" >>

update_restarting(h, chunk) == chunk

\* hasher.update(chunk).  The state of the hashlib object is the bytes it
\* has been fed: md5 itself is not modelled, and distinct inputs are taken
\* to have distinct digests
update(h, chunk) == h \o chunk

\* hasher.hexdigest(): two hexadecimal digits for each byte
RECURSIVE hexdigest(_)
hexdigest(h) ==
    IF h = <<>>
    THEN <<>>
    ELSE << HexDigits[(Head(h) \div 16) + 1], HexDigits[(Head(h) % 16) + 1] >>
            \o hexdigest(Tail(h))

\* str.lower()
lower(s) ==
    [i \in 1..Len(s) |->
        CASE s[i] = "A" -> "a"
          [] s[i] = "B" -> "b"
          [] s[i] = "C" -> "c"
          [] s[i] = "D" -> "d"
          [] s[i] = "E" -> "e"
          [] s[i] = "F" -> "f"
          [] OTHER -> s[i]]

\* in_fh.read(chunk_size) at offset pos: '' at the end of the file
read(bytes, pos, n) ==
    SubSeq(bytes, pos + 1, IF pos + n < Len(bytes) THEN pos + n ELSE Len(bytes))

\* contents = "%s  %s\n" % (digest, os.path.basename(path))
sidecar_contents(digest, base) == digest \o <<" ", " ", base, "\n">>

NoEarlier == [path |-> <<>>, bytes |-> <<>>, sidecar |-> <<>>]

\* hash_file(path, out_fn, routine) is called
hf_call(path, bytes, earlier) ==
    [pc |-> "read", path |-> path, bytes |-> bytes, pos |-> 0,
     hasher |-> <<>>, sidecar |-> <<>>, earlier |-> earlier]

\* pipe_in_out: data = in_fh.read(chunk_size); chunk_cb(bytes_piped, data)
hf_read ==
    /\ hf.pc = "read"
    /\ LET data == read(hf.bytes, hf.pos, ChunkSize)
       IN  hf' = IF data = <<>>
                 THEN [hf EXCEPT !.pc = "digest"]
                 ELSE [hf EXCEPT !.hasher = update(@, data),
                                 !.pos = @ + Len(data)]
    /\ UNCHANGED <<buildVars, dl, vx, rpm>>

\* digest = hasher.hexdigest().lower(); util.write_file(out_fn, contents)
hf_write ==
    /\ hf.pc = "digest"
    /\ hf' = [hf EXCEPT
                 !.sidecar = sidecar_contents(lower(hexdigest(hf.hasher)),
                                              basename(hf.path)),
                 !.pc = "done"]
    /\ UNCHANGED <<buildVars, dl, vx, rpm>>

\* the files that differ from `bytes' in at most one byte
OneByteChanges(bytes) ==
    {b \in FileContents :
        /\ Len(b) = Len(bytes)
        /\ Cardinality({i \in 1..Len(b) : b[i] # bytes[i]}) <= 1}

\* hash_file is called again
hf_again ==
    /\ hf.pc = "done"
    /\ hf.earlier = NoEarlier
    /\ \E p \in Paths, b \in OneByteChanges(hf.bytes) :
          hf' = hf_call(p, b, [path |-> hf.path, bytes |-> hf.bytes,
                               sidecar |-> hf.sidecar])
    /\ UNCHANGED <<buildVars, dl, vx, rpm>>

hash_file ==
    \/ hf_read
    \/ hf_write
    \/ hf_again

----------------------------------------------------------------------------
(* builder/downloader/tar_ball.py: TarBallDownloader and its cache         *)

\* the source locators (`from') of the descriptors
Urls == {"http://a/centos.tar.gz", "http://b/centos.tar.gz"}

\* the root_file of a descriptor; "" is None: the archive is the root
RootFiles == {"", "root.tar.gz"}

\* the `download' sections of the configurations
Descriptors == [from : Urls, root_file : RootFiles]

\* what a file holds: the archive fetched from `from' when member is "",
\* else that member of the archive; complete is FALSE for a file whose
\* writing was cut short
NoFile == [from |-> "", member |-> "", complete |-> FALSE]

\* the file download_url has written when it returns (complete) or raises
\* part-way (not complete)
Fetched(url, complete) == [from |-> url, member |-> "", complete |-> complete]

\* util.copy(root_gz, arch_path): the member found in the archive
Member(url, root_file) == [from |-> url, member |-> root_file, complete |-> TRUE]

\* util.hash_blob(self.where_from, 'md5', mlen=8): hexdigest()[0:8]
hash_blob(blob) ==
    CASE blob = "http://a/centos.tar.gz" -> "564799dd"
      [] blob = "http://b/centos.tar.gz" -> "0a14172f"

\* _check_cache: os.path.join(cache_dir, "%s.tar.gz" % (cache_name))
cache_pth(d) == "cache/" \o hash_blob(d.from) \o ".tar.gz"

CachePaths == {cache_pth(d) : d \in Descriptors}

NoDescriptor == [from |-> "", root_file |-> ""]

\* what the last call of download() came to: "hit" and "miss" return path
Outcome(how, path, content) ==
    [outcome |-> how, path |-> path, content |-> content]

NoOutcome == Outcome("none", "", NoFile)

\* no download() is running and the cache directory is empty; fetched and
\* owner are history: the file download_url completed at the path, and the
\* descriptor of the download() that wrote it
NoDownload ==
    [pc |-> "idle", desc |-> NoDescriptor,
     cache |-> [p \in CachePaths |-> NoFile],
     meta |-> [p \in CachePaths |-> NoDescriptor],
     fetched |-> [p \in CachePaths |-> NoFile],
     owner |-> [p \in CachePaths |-> NoDescriptor],
     result |-> NoOutcome]

\* download(): (cache_pth, exists_there) = self._check_cache();
\* if exists_there: return cache_pth
dl_check_cache ==
    /\ dl.pc = "idle"
    /\ \E d \in Descriptors :
          LET p == cache_pth(d)
              exists_there == dl.cache[p] # NoFile
          IN  dl' = IF exists_there
                    THEN [dl EXCEPT !.desc = d,
                                    !.result = Outcome("hit", p, dl.cache[p])]
                    ELSE [dl EXCEPT !.pc = "download_url", !.desc = d,
                                    !.result = NoOutcome]
    /\ UNCHANGED <<buildVars, hf, vx, rpm>>

\* util.ensure_dirs([os.path.dirname(cache_pth)]);
\* util.download_url(self.where_from, cache_pth): urlopen and the status
\* check raise before the file is opened ("refused"); pipe_in_out fails
\* part-way ("cut") or copies the whole response ("ok")
dl_download_url ==
    /\ dl.pc = "download_url"
    /\ LET p == cache_pth(dl.desc)
       IN  \E how \in {"refused", "cut", "ok"} :
              dl' = CASE how = "refused" ->
                           [dl EXCEPT !.pc = "idle",
                                      !.result = Outcome("raised", p, NoFile)]
                      [] how = "cut" ->
                           [dl EXCEPT !.pc = "idle",
                                      !.cache[p] = Fetched(dl.desc.from, FALSE),
                                      !.owner[p] = dl.desc,
                                      !.result = Outcome("raised", p, NoFile)]
                      [] how = "ok" ->
                           [dl EXCEPT !.pc = "write_file",
                                      !.cache[p] = Fetched(dl.desc.from, TRUE),
                                      !.fetched[p] = Fetched(dl.desc.from, TRUE),
                                      !.owner[p] = dl.desc]
    /\ UNCHANGED <<buildVars, hf, vx, rpm>>

\* except: util.del_file(cache_pth); raise
del_and_raise(p) ==
    [dl EXCEPT !.pc = "idle",
               !.cache[p] = NoFile,
               !.fetched[p] = NoFile,
               !.owner[p] = NoDescriptor,
               !.result = Outcome("raised", p, NoFile)]

\* try: util.write_file("%s.json" % (cache_pth), "%s\n" % (json.dumps(meta)))
dl_write_file ==
    /\ dl.pc = "write_file"
    /\ LET p == cache_pth(dl.desc)
       IN  \E ok \in BOOLEAN :
              dl' = IF ok
                    THEN [dl EXCEPT !.pc = "_adjust_real_root",
                                    !.meta[p] = dl.desc]
                    ELSE del_and_raise(p)
    /\ UNCHANGED <<buildVars, hf, vx, rpm>>

\* return self._adjust_real_root(cache_pth): with a root_file, the archive
\* is unpacked in a scratch directory and the member found is copied over
\* arch_path; tar failing, or the member missing, raises
dl_adjust_real_root ==
    /\ dl.pc = "_adjust_real_root"
    /\ LET p == cache_pth(dl.desc)
       IN  IF dl.desc.root_file = ""
           THEN dl' = [dl EXCEPT !.pc = "idle",
                                 !.result = Outcome("miss", p, dl.cache[p])]
           ELSE \E found \in BOOLEAN :
                   dl' = IF found
                         THEN [dl EXCEPT
                                  !.pc = "idle",
                                  !.cache[p] = Member(dl.desc.from,
                                                      dl.desc.root_file),
                                  !.result = Outcome("miss", p,
                                                Member(dl.desc.from,
                                                       dl.desc.root_file))]
                         ELSE del_and_raise(p)
    /\ UNCHANGED <<buildVars, hf, vx, rpm>>

download ==
    \/ dl_check_cache
    \/ dl_download_url
    \/ dl_write_file
    \/ dl_adjust_real_root

----------------------------------------------------------------------------
(* ec2_convert and make_virt_xml: the name written into libvirt.xml        *)

\* the directories tempfile.mkdtemp() can return
TempDirs == {"/tmp/tmpAAAAAA", "/tmp/tmpBBBBBB"}

\* os.path.abspath(options.file_name)
OutFns == {"/out/image.tar.gz", "/out/disk"}

\* the vmlinuz-* and initramfs-*.img names found in <root>/boot
KernelFns == {"vmlinuz-2.6.32", "vmlinuz-3.10.0"}

RamdiskFns == {"initramfs-2.6.32.img", "initramfs-3.10.0.img"}

\* img_fn = os.path.basename(out_fn), less a trailing '.tar.gz', plus
\* "." + out_fmt, where out_fmt is 'qcow2'
img_base(out) ==
    CASE out = "/out/image.tar.gz" -> "image.qcow2"
      [] out = "/out/disk" -> "disk.qcow2"

\* 'http://images.yahoo.com/%s/%s/%s' % (urllib.quote(root_fn),
\* urllib.quote(kernel_fn), urllib.quote(ram_fn)); quote leaves letters,
\* digits and "_.-/" as they are
virt_url(kernel_fn, ram_fn, root_fn) ==
    "http://images.yahoo.com/" \o root_fn \o "/" \o kernel_fn \o "/" \o ram_fn

\* str(uuid.uuid5(uuid.NAMESPACE_URL, name))
uuid5(name) ==
    CASE name = "http://images.yahoo.com//tmp/tmpAAAAAA/img/image.qcow2//tmp/tmpAAAAAA/img/vmlinuz-2.6.32//tmp/tmpAAAAAA/img/initramfs-2.6.32.img"
         -> "e74c04b6-b89b-5c38-8bbc-812d957a7527"
      [] name = "http://images.yahoo.com//tmp/tmpAAAAAA/img/image.qcow2//tmp/tmpAAAAAA/img/vmlinuz-2.6.32//tmp/tmpAAAAAA/img/initramfs-3.10.0.img"
         -> "d4422efd-49e3-59be-88e2-f8df974a6dc9"
      [] name = "http://images.yahoo.com//tmp/tmpAAAAAA/img/image.qcow2//tmp/tmpAAAAAA/img/vmlinuz-3.10.0//tmp/tmpAAAAAA/img/initramfs-2.6.32.img"
         -> "4de83bd6-8e0e-50ca-b8b6-2735ccf8715c"
      [] name = "http://images.yahoo.com//tmp/tmpAAAAAA/img/image.qcow2//tmp/tmpAAAAAA/img/vmlinuz-3.10.0//tmp/tmpAAAAAA/img/initramfs-3.10.0.img"
         -> "e2527554-47b1-5ec5-898a-e74d7e2ae152"
      [] name = "http://images.yahoo.com//tmp/tmpAAAAAA/img/disk.qcow2//tmp/tmpAAAAAA/img/vmlinuz-2.6.32//tmp/tmpAAAAAA/img/initramfs-2.6.32.img"
         -> "4403ba1c-f5c0-595a-935c-3e30a70459d5"
      [] name = "http://images.yahoo.com//tmp/tmpAAAAAA/img/disk.qcow2//tmp/tmpAAAAAA/img/vmlinuz-2.6.32//tmp/tmpAAAAAA/img/initramfs-3.10.0.img"
         -> "8ca3a402-2d89-5d20-b009-91e662a03ca8"
      [] name = "http://images.yahoo.com//tmp/tmpAAAAAA/img/disk.qcow2//tmp/tmpAAAAAA/img/vmlinuz-3.10.0//tmp/tmpAAAAAA/img/initramfs-2.6.32.img"
         -> "cb9ae0ff-b23b-5608-91bb-2407fda7350f"
      [] name = "http://images.yahoo.com//tmp/tmpAAAAAA/img/disk.qcow2//tmp/tmpAAAAAA/img/vmlinuz-3.10.0//tmp/tmpAAAAAA/img/initramfs-3.10.0.img"
         -> "914c6d65-606f-5804-880b-10911893458a"
      [] name = "http://images.yahoo.com//tmp/tmpBBBBBB/img/image.qcow2//tmp/tmpBBBBBB/img/vmlinuz-2.6.32//tmp/tmpBBBBBB/img/initramfs-2.6.32.img"
         -> "dc1e6184-e039-5a01-868e-0c7cd3733086"
      [] name = "http://images.yahoo.com//tmp/tmpBBBBBB/img/image.qcow2//tmp/tmpBBBBBB/img/vmlinuz-2.6.32//tmp/tmpBBBBBB/img/initramfs-3.10.0.img"
         -> "4ec0ab87-cc8a-5658-baca-f4991fdab60e"
      [] name = "http://images.yahoo.com//tmp/tmpBBBBBB/img/image.qcow2//tmp/tmpBBBBBB/img/vmlinuz-3.10.0//tmp/tmpBBBBBB/img/initramfs-2.6.32.img"
         -> "4ddbe22b-310c-593c-802d-b0d811f56883"
      [] name = "http://images.yahoo.com//tmp/tmpBBBBBB/img/image.qcow2//tmp/tmpBBBBBB/img/vmlinuz-3.10.0//tmp/tmpBBBBBB/img/initramfs-3.10.0.img"
         -> "3f1e19e4-eb37-5157-8953-db15139cd728"
      [] name = "http://images.yahoo.com//tmp/tmpBBBBBB/img/disk.qcow2//tmp/tmpBBBBBB/img/vmlinuz-2.6.32//tmp/tmpBBBBBB/img/initramfs-2.6.32.img"
         -> "b5ca4ade-8ced-5972-beb5-a643b464ae09"
      [] name = "http://images.yahoo.com//tmp/tmpBBBBBB/img/disk.qcow2//tmp/tmpBBBBBB/img/vmlinuz-2.6.32//tmp/tmpBBBBBB/img/initramfs-3.10.0.img"
         -> "2bb7fe67-ed81-52a8-9d2f-735a94db7627"
      [] name = "http://images.yahoo.com//tmp/tmpBBBBBB/img/disk.qcow2//tmp/tmpBBBBBB/img/vmlinuz-3.10.0//tmp/tmpBBBBBB/img/initramfs-2.6.32.img"
         -> "a2d8cb49-a9c3-5236-9463-9070cac960fa"
      [] name = "http://images.yahoo.com//tmp/tmpBBBBBB/img/disk.qcow2//tmp/tmpBBBBBB/img/vmlinuz-3.10.0//tmp/tmpBBBBBB/img/initramfs-3.10.0.img"
         -> "5b0e2d29-5d64-502f-9128-7ab0ebd57872"

NoPackaging == [out_fn |-> "", k_fn |-> "", rd_fn |-> "", name |-> ""]

\* ec2_convert(raw_fn, out_fn, 'qcow2', ...) is called
vx_call(out, earlier) ==
    [pc |-> "tempdir", out_fn |-> out, tdir |-> "", img_dir |-> "",
     k_fn |-> "", rd_fn |-> "", name |-> "", earlier |-> earlier]

NoVirtXml == [vx_call("", NoPackaging) EXCEPT !.pc = "idle"]

\* with util.tempdir() as tdir: img_dir = os.path.join(tdir, 'img')
vx_tempdir ==
    /\ vx.pc = "tempdir"
    /\ \E t \in TempDirs :
          vx' = [vx EXCEPT !.pc = "listdir", !.tdir = t,
                           !.img_dir = t \o "/img"]
    /\ UNCHANGED <<buildVars, hf, dl, rpm>>

\* rd_fn = fns.get('ramdisk'); k_fn = fns.get('kernel'), and both are moved
\* to img_dir
vx_listdir ==
    /\ vx.pc = "listdir"
    /\ \E k \in KernelFns, r \in RamdiskFns :
          vx' = [vx EXCEPT !.pc = "make_virt_xml", !.k_fn = k, !.rd_fn = r]
    /\ UNCHANGED <<buildVars, hf, dl, rpm>>

\* img_fn = util.abs_join(img_dir, img_fn);
\* make_virt_xml(util.abs_join(img_dir, k_fn), util.abs_join(img_dir, rd_fn),
\*               util.abs_join(img_dir, img_fn)): img_fn is absolute by
\* then, and joining it to img_dir again leaves it as it is
vx_make_virt_xml ==
    /\ vx.pc = "make_virt_xml"
    /\ LET img_fn == vx.img_dir \o "/" \o img_base(vx.out_fn)
           kernel_fn == vx.img_dir \o "/" \o vx.k_fn
           ram_fn == vx.img_dir \o "/" \o vx.rd_fn
       IN  vx' = [vx EXCEPT !.pc = "done",
                            !.name = uuid5(virt_url(kernel_fn, ram_fn, img_fn))]
    /\ UNCHANGED <<buildVars, hf, dl, rpm>>

\* the next build packages an image
vx_again ==
    /\ vx.pc = "done"
    /\ vx.earlier = NoPackaging
    /\ \E out \in OutFns :
          vx' = vx_call(out, [out_fn |-> vx.out_fn, k_fn |-> vx.k_fn,
                              rd_fn |-> vx.rd_fn, name |-> vx.name])
    /\ UNCHANGED <<buildVars, hf, dl, rpm>>

make_virt_xml ==
    \/ vx_tempdir
    \/ vx_listdir
    \/ vx_make_virt_xml
    \/ vx_again

----------------------------------------------------------------------------
(* builder/modules/install_rpms.py: modify                                 *)

\* the rpm files expand_rpms finds, as path components
RpmFiles == {<<"srv", "a.rpm">>, <<"srv", "b.rpm">>, <<"opt", "a.rpm">>}

\* rpms = expand_rpms(cfg.get('rpms'))
RpmLists == UNION {[1..n -> RpmFiles] : n \in 0..MaxRpms}

\* modify(name, root, cfg) is called; tmp is the set of files of <root>/tmp
\* that this call has put there
rpm_call(rpms) ==
    [pc |-> "ensure_dir", rpms |-> rpms, copied |-> 0, cleanup_fns |-> <<>>,
     tmp |-> {}, raised |-> FALSE]

NoRpms == [rpm_call(<<>>) EXCEPT !.pc = "idle"]

\* if not rpms: return; util.ensure_dir(util.abs_join(root, 'tmp'))
rpm_ensure_dir ==
    /\ rpm.pc = "ensure_dir"
    /\ IF rpm.rpms = <<>>
       THEN rpm' = [rpm EXCEPT !.pc = "done"]
       ELSE \E ok \in BOOLEAN :
               rpm' = IF ok
                      THEN [rpm EXCEPT !.pc = "copy"]
                      ELSE [rpm EXCEPT !.pc = "done", !.raised = TRUE]
    /\ UNCHANGED <<buildVars, hf, dl, vx>>

\* for fn in rpms: cp_to = util.abs_join(root, 'tmp', os.path.basename(fn));
\* util.copy(fn, cp_to); cleanup_fns.append(cp_to)
rpm_copy ==
    /\ rpm.pc = "copy"
    /\ LET fn == rpm.rpms[rpm.copied + 1]
           cp_to == basename(fn)
       IN  \E ok \in BOOLEAN :
              rpm' = IF ok
                     THEN [rpm EXCEPT
                              !.pc = IF rpm.copied + 1 = Len(rpm.rpms)
                                     THEN "subp" ELSE "copy",
                              !.copied = @ + 1,
                              !.tmp = @ \cup {cp_to},
                              !.cleanup_fns = Append(@, cp_to)]
                     ELSE [rpm EXCEPT !.pc = "done", !.raised = TRUE]
    /\ UNCHANGED <<buildVars, hf, dl, vx>>

\* try: util.subp(cmd, capture=False)
\* finally: for fn in cleanup_fns: util.del_file(fn)
rpm_subp ==
    /\ rpm.pc = "subp"
    /\ \E o \in ProcOutcomes :
          rpm' = [rpm EXCEPT
                     !.pc = "done",
                     !.raised = ~subp(o, DefaultRcs),
                     !.tmp = @ \ {rpm.cleanup_fns[i] :
                                     i \in 1..Len(rpm.cleanup_fns)}]
    /\ UNCHANGED <<buildVars, hf, dl, vx>>

install_rpms ==
    \/ rpm_ensure_dir
    \/ rpm_copy
    \/ rpm_subp

----------------------------------------------------------------------------
(* main                                                                    *)

\* the width of the exit status a parent process reads
ExitModulus == 256

\* sys.exit(rc), as the caller of the process sees it
sys_exit(rc) == rc % ExitModulus

Stages == <<"format_blank", "extract_into", "activate_modules", "ec2_convert">>

\* the first statement of each stage
entry ==
    [ format_blank |-> "fb_qemu_img_create",
      extract_into |-> "ei_mkdtemp",
      activate_modules |-> "am_mkdtemp",
      ec2_convert |-> "ec_losetup" ]

\* the state the orchestrator is in once the stage has returned
reached ==
    [ format_blank |-> "FORMATTED",
      extract_into |-> "POPULATED",
      activate_modules |-> "CUSTOMIZED",
      ec2_convert |-> "PACKAGED" ]

next_stage_skipping(st) ==
    CASE st = "INIT" -> "format_blank"
      [] st = "FORMATTED" -> "activate_modules"
      [] st = "POPULATED" -> "activate_modules"

\* the stage main() calls next, before the decision on the failures
next_stage(st) ==
    CASE st = "INIT" -> "format_blank"
      [] st = "FORMATTED" -> "extract_into"
      [] st = "POPULATED" -> "activate_modules"

ShouldAbort_many(fails) == Len(fails) > 1

\* if len(fails): ... return len(fails)
ShouldAbort(fails) == Len(fails) # 0

Call(s) ==
    /\ stage' = s
    /\ pc' = entry[s]
    /\ calls' = Append(calls, [op |-> "call", stage |-> s])
    /\ log' = <<>>

main_call ==
    /\ pc = "main"
    /\ status \in {"INIT", "FORMATTED", "POPULATED"}
    /\ Call(next_stage(status))
    /\ UNCHANGED <<inputVars, status, exc, bodyExc, undo, devname, resVars,
                   modVars, ecVars, exit_status,
                   last_subp,
                   fstab, hf, dl, vx, rpm>>

\* a stage returns to main()
stage_return ==
    /\ pc = "return"
    /\ status' = reached[stage]
    /\ stage' = "main"
    /\ pc' = "main"
    /\ calls' = Append(calls, [op |-> "return", stage |-> stage])
    /\ UNCHANGED <<inputVars, exc, bodyExc, undo, devname, resVars, modVars,
                   ecVars, exit_status, log,
                   last_subp,
                   fstab, hf, dl, vx, rpm>>

\* (ran, fails) = activate_modules(...): return len(fails), or ec2_convert
main_decide ==
    /\ pc = "main"
    /\ status = "CUSTOMIZED"
    /\ IF ShouldAbort(failures)
       THEN /\ status' = "ABORTED"
            /\ exit_status' = sys_exit(Len(failures))
            /\ pc' = "exit"
            /\ UNCHANGED <<stage, calls, log>>
       ELSE /\ Call("ec2_convert")
            /\ UNCHANGED <<status, exit_status>>
    /\ UNCHANGED <<inputVars, exc, bodyExc, undo, devname, resVars, modVars,
                   ecVars,
                   last_subp,
                   fstab, hf, dl, vx, rpm>>

\* return 0; sys.exit(rc)
main_return ==
    /\ pc = "main"
    /\ status = "PACKAGED"
    /\ exit_status' = sys_exit(0)
    /\ pc' = "exit"
    /\ UNCHANGED <<inputVars, stage, status, exc, bodyExc, undo, devname,
                   resVars, modVars, ecVars, calls, log,
                   last_subp,
                   fstab, hf, dl, vx, rpm>>

main_raise_swallowed ==
    /\ pc = "unwind"
    /\ undo = <<>>
    /\ pc' = "return"
    /\ UNCHANGED <<inputVars, stage, status, exc, bodyExc, undo, devname,
                   resVars, modVars, ecVars, exit_status, calls, log,
                   last_subp,
                   fstab, hf, dl, vx, rpm>>

\* an exception leaves the stage and main(): the interpreter prints the
\* traceback and exits with status 1
main_raise ==
    /\ pc = "unwind"
    /\ undo = <<>>
    /\ status' = "FATAL"
    /\ exit_status' = 1
    /\ pc' = "exit"
    /\ calls' = Append(calls, [op |-> "raise", stage |-> stage])
    /\ stage' = "main"
    /\ UNCHANGED <<inputVars, exc, bodyExc, undo, devname, resVars, modVars,
                   ecVars, log,
                   last_subp,
                   fstab, hf, dl, vx, rpm>>

main ==
    \/ main_call
    \/ stage_return
    \/ main_decide
    \/ main_return
    \/ main_raise

----------------------------------------------------------------------------
(* The specifications.                                                     *)

Configs ==
    { [k \in {"add_users"} |-> <<"alice">>] } \cup
    { [k \in {"modules", "add_users"} |->
          IF k = "modules" THEN l ELSE <<"alice">>] : l \in ModLists }

\* the file-system types of the model
FsTypes == {"ext3", "ext4", "xfs", "btrfs"}

\* --fs-type is left at its default
Options == [strip_parts : BOOLEAN, compress : BOOLEAN, fs_type : {"ext4"}]

\* hash_file is not running
NoHash ==
    [pc |-> "idle", path |-> <<>>, bytes |-> <<>>, pos |-> 0,
     hasher |-> <<>>, sidecar |-> <<>>, earlier |-> NoEarlier]

Start ==
    /\ pc = "main"
    /\ stage = "main"
    /\ status = "INIT"
    /\ exc = "none"
    /\ bodyExc = "none"
    /\ undo = <<>>
    /\ devname = ""
    /\ liveLoops = {}
    /\ liveMounts = {}
    /\ scratch = {}
    /\ wiped = FALSE
    /\ mods = <<>>
    /\ idx = 0
    /\ which_ran = <<>>
    /\ failures = <<>>
    /\ attempts = <<>>
    /\ rm_config = NoObject
    /\ module_cfg = NoArgs
    /\ boot = {}
    /\ rd_k = <<FALSE, FALSE>>
    /\ outputs = {}
    /\ out_fn = Absent
    /\ exit_status = 0
    /\ last_subp = NoCall
    /\ fstab = <<>>
    /\ calls = <<>>
    /\ log = <<>>

Init ==
    /\ config \in Configs
    /\ options \in Options
    /\ hf = NoHash
    /\ dl = NoDownload
    /\ vx = NoVirtXml
    /\ rpm = NoRpms
    /\ Start

Next ==
    \/ format_blank
    \/ extract_into
    \/ activate_modules
    \/ ec2_convert
    \/ cmd_undo
    \/ tempdir_exit
    \/ main

Spec == Init /\ [][Next]_vars

\* a configuration whose module list is long, and none of whose modules
\* exists
LongList == [i \in 1..ManyMods |-> <<"nosuch">>]

InitManyModules ==
    /\ config \in Configs \cup
                  { [k \in {"modules", "add_users"} |->
                        IF k = "modules" THEN LongList ELSE <<"alice">>] }
    /\ options \in Options
    /\ hf = NoHash
    /\ dl = NoDownload
    /\ vx = NoVirtXml
    /\ rpm = NoRpms
    /\ Start

SpecManyModules == InitManyModules /\ [][Next]_vars

\* a build with one module, with any --fs-type
InitFsTypes ==
    /\ config = [k \in {"modules", "add_users"} |->
                    IF k = "modules"
                    THEN << <<" ", "add", "-", "user", "\t">> >>
                    ELSE <<"alice">>]
    /\ options \in [strip_parts : BOOLEAN, compress : BOOLEAN,
                     fs_type : FsTypes]
    /\ hf = NoHash
    /\ dl = NoDownload
    /\ vx = NoVirtXml
    /\ rpm = NoRpms
    /\ Start

SpecFsTypes == InitFsTypes /\ [][Next]_vars

\* calls of hash_file, with no build running
InitHash ==
    /\ config \in { [k \in {"add_users"} |-> <<"alice">>] }
    /\ options \in [strip_parts : {TRUE}, compress : {FALSE},
                     fs_type : {"ext4"}]
    /\ hf \in {hf_call(p, b, NoEarlier) : p \in Paths, b \in FileContents}
    /\ dl = NoDownload
    /\ vx = NoVirtXml
    /\ rpm = NoRpms
    /\ Start

SpecHash == InitHash /\ [][hash_file]_vars

\* calls of download(), one after another over one cache directory, with
\* no build running
InitDownload ==
    /\ config \in { [k \in {"add_users"} |-> <<"alice">>] }
    /\ options \in [strip_parts : {TRUE}, compress : {FALSE},
                     fs_type : {"ext4"}]
    /\ hf = NoHash
    /\ dl = NoDownload
    /\ vx = NoVirtXml
    /\ rpm = NoRpms
    /\ Start

SpecDownload == InitDownload /\ [][download]_vars

\* two packaging runs, one after the other, as far as libvirt.xml goes
InitVirtXml ==
    /\ config \in { [k \in {"add_users"} |-> <<"alice">>] }
    /\ options \in [strip_parts : {TRUE}, compress : {FALSE},
                     fs_type : {"ext4"}]
    /\ hf = NoHash
    /\ dl = NoDownload
    /\ vx \in {vx_call(out, NoPackaging) : out \in OutFns}
    /\ rpm = NoRpms
    /\ Start

SpecVirtXml == InitVirtXml /\ [][make_virt_xml]_vars

\* one call of install_rpms.modify, with no build running
InitRpms ==
    /\ config \in { [k \in {"add_users"} |-> <<"alice">>] }
    /\ options \in [strip_parts : {TRUE}, compress : {FALSE},
                     fs_type : {"ext4"}]
    /\ hf = NoHash
    /\ dl = NoDownload
    /\ vx = NoVirtXml
    /\ rpm \in {rpm_call(l) : l \in RpmLists}
    /\ Start

SpecRpms == InitRpms /\ [][install_rpms]_vars

----------------------------------------------------------------------------
(* Properties.                                                             *)

Range(f) == {f[i] : i \in DOMAIN f}

\* a name that is empty once its white space is trimmed
IsBlank(s) == \A i \in 1..Len(s) : s[i] \in Whitespace

NonBlankPositions(l) == {i \in 1..Len(l) : ~IsBlank(l[i])}

Ascending(q) == \A i, j \in 1..Len(q) : i < j => q[i] < q[j]

\* a is b with some entries left out, the order kept
RECURSIVE IsSubSeq(_, _)
IsSubSeq(a, b) ==
    IF a = <<>> THEN TRUE
    ELSE IF b = <<>> THEN FALSE
    ELSE IF Head(a) = Head(b) THEN IsSubSeq(Tail(a), Tail(b))
    ELSE IsSubSeq(a, Tail(b))

Called(s) == \E i \in 1..Len(calls) : calls[i] = [op |-> "call", stage |-> s]

\* the stage whose commands `log' holds has been left
StageLeft == pc \in {"return", "exit"} \/ (pc = "main" /\ calls # <<>>)

\* the successful create_loopback calls of the stage
Acquired == {i \in 1..Len(log) : log[i].op = "losetup" /\ log[i].ok}

\* the `losetup -d' invocations for the device acquired at i
Detaches(i) ==
    {j \in (i + 1)..Len(log) :
        /\ log[j].op = "losetup -d"
        /\ log[j].arg = log[i].arg
        /\ \A k \in (i + 1)..(j - 1) : k \notin Acquired}

\* C1: once activate_modules has reported a failed module, ec2_convert is
\* never called in that build and nothing exists at the output path.
C1_NoPackagingAfterFailure ==
    Len(failures) > 0 =>
        /\ ~Called("ec2_convert")
        /\ out_fn = Absent
        /\ outputs = {}

C1_Witness ==
    /\ pc = "exit"
    /\ status = "ABORTED"
    /\ Len(failures) > 0
    /\ Len(which_ran) > Len(failures)

\* C2: when a stage has been left, on whatever path, every loop device a
\* successful create_loopback of the stage returned has had `losetup -d'
\* invoked on it exactly once.
C2_EveryLoopbackDetachedOnce ==
    StageLeft => \A i \in Acquired : Cardinality(Detaches(i)) = 1

\* C3: in run_modules the modules attempted so far are those of the
\* non-blank entries consumed so far, each once and in list order, whatever
\* failed before them; when run_modules returns, every non-blank entry of
\* the configured list has been attempted.
C3_EveryModuleAttemptedInOrder ==
    /\ pc = "rm_loop" =>
          /\ Ascending(attempts)
          /\ Range(attempts) = NonBlankPositions(mods) \cap (1..idx)
    /\ pc = "am_with_umount" =>
          /\ Ascending(attempts)
          /\ Range(attempts) = NonBlankPositions(popped_modules(config))

C3_Witness ==
    /\ pc = "am_with_umount"
    /\ Len(attempts) = 2
    /\ failures = <<which_ran[1]>>

\* C4: when run_modules returns, which_ran has as many entries as the list
\* has names that are non-empty after trimming, no blank name is in
\* which_ran or failures, and failures is which_ran with entries left out.
C4_OutcomesCountNonBlankNames ==
    pc = "am_with_umount" =>
        /\ Len(which_ran) =
              Cardinality(NonBlankPositions(popped_modules(config)))
        /\ \A i \in 1..Len(which_ran) : ~IsBlank(which_ran[i])
        /\ \A i \in 1..Len(failures) : ~IsBlank(failures[i])
        /\ IsSubSeq(failures, which_ran)

C4_Witness ==
    /\ pc = "am_with_umount"
    /\ \E i \in 1..Len(mods) : IsBlank(mods[i]) /\ mods[i] # <<>>
    /\ Len(which_ran) = 1
    /\ Len(failures) = 1

\* C5: when main() returns, the exit status the caller sees is 0 exactly
\* when packaging completed, and otherwise it is the number of failed
\* modules, which is not 0.
C5_ExitStatusIsFailureCount ==
    (pc = "exit" /\ status # "FATAL") =>
        /\ (exit_status = 0) <=> (status = "PACKAGED")
        /\ status # "PACKAGED" =>
              /\ exit_status = Len(failures)
              /\ exit_status # 0

\* C6: in a stage that mounted the image, `losetup -d' is invoked only
\* after the umount of the mount directory has been invoked.
C6_UmountBeforeDetach ==
    \A j \in 1..Len(log) :
        log[j].op = "losetup -d" =>
            \A i \in 1..(j - 1) :
                (log[i].op = "mount" /\ log[i].ok) =>
                    \E k \in (i + 1)..(j - 1) :
                        log[k].op = "umount" /\ log[k].arg = log[i].arg

C6_Witness ==
    /\ pc = "unwind"
    /\ stage = "ec2_convert"
    /\ \E i, j \in 1..Len(log) :
          /\ log[i].op = "mount" /\ log[i].ok
          /\ log[j].op = "losetup -d"

\* C7: at most one loop mapping of the raw image and at most one mount of
\* it are live in any state of a build.
C7_AtMostOneLive ==
    /\ Cardinality(liveLoops) <= 1
    /\ Cardinality(liveMounts) <= 1

\* C8: extract_into, activate_modules and ec2_convert begin only when no
\* loop mapping and no mount of an earlier stage is live.
C8_StageBeginsReleased ==
    \A s \in {"extract_into", "activate_modules", "ec2_convert"} :
        (stage = s /\ pc = entry[s]) =>
            /\ liveLoops = {}
            /\ liveMounts = {}

\* C9: when a release command of a stage has failed, every acquisition of
\* the stage still has its release invoked and the stage ends as its body
\* did: with the exception the body raised, or with a normal return.
C9_ReleaseFailureKeepsResult ==
    (/\ StageLeft
     /\ \E i \in 1..Len(log) :
           log[i].op \in {"umount", "losetup -d"} /\ ~log[i].ok) =>
        /\ exc = bodyExc
        /\ \A i \in Acquired : Detaches(i) # {}
        /\ \A i \in 1..Len(log) :
              (log[i].op = "mount" /\ log[i].ok) =>
                  \E k \in (i + 1)..Len(log) : log[k].op = "umount"

\* C10: the stages are called in the order format_blank, extract_into,
\* activate_modules, ec2_convert, each at most once and only right after
\* its predecessor has returned normally; once PACKAGED or ABORTED is
\* reached no stage is running or called again, and ABORTED excludes
\* ec2_convert.
C10_StagesInOrder ==
    LET called == SelectSeq(calls, LAMBDA e : e.op = "call")
    IN  /\ Len(called) <= Len(Stages)
        /\ \A i \in 1..Len(called) : called[i].stage = Stages[i]
        /\ \A i \in 2..Len(calls) :
              calls[i].op = "call" =>
                  /\ calls[i - 1].op = "return"
                  /\ \E n \in 2..Len(Stages) :
                        /\ calls[i].stage = Stages[n]
                        /\ calls[i - 1].stage = Stages[n - 1]
        /\ status = "PACKAGED" =>
              /\ stage = "main"
              /\ calls[Len(calls)] = [op |-> "return", stage |-> "ec2_convert"]
        /\ status = "ABORTED" =>
              /\ stage = "main"
              /\ calls[Len(calls)] =
                    [op |-> "return", stage |-> "activate_modules"]

C10_Witness ==
    /\ pc = "exit"
    /\ status = "PACKAGED"
    /\ Len(calls) = 8

\* the statements of format_blank and of extract_into that can fail
PreparationSites ==
    { "fb_qemu_img_create", "fb_losetup1", "fb_fdisk", "fb_losetup2",
      "fb_mkfs", "ei_mkdtemp", "ei_download", "ei_losetup", "ei_makedirs",
      "ei_mount", "ei_tar", "ei_fix_fstab" }

\* C11: once a step of format_blank or of extract_into has failed, the
\* build only unwinds and ends with an error: activate_modules and
\* ec2_convert are never called, nothing is at the output path, and the
\* process ends FATAL with a non-zero exit status.
C11_FailedPreparationIsFatal ==
    bodyExc \in PreparationSites =>
        /\ pc \in {"unwind", "exit"}
        /\ ~Called("activate_modules")
        /\ ~Called("ec2_convert")
        /\ out_fn = Absent
        /\ pc = "exit" => (status = "FATAL" /\ exit_status # 0)

C11_Witness ==
    /\ pc = "exit"
    /\ status = "FATAL"
    /\ bodyExc = "ei_tar"
    /\ calls[Len(calls)] = [op |-> "raise", stage |-> "extract_into"]

\* C12: activate_modules never raises to main(): whatever the module list,
\* the modules and the mount and loop commands do, the stage returns its
\* pair and main() goes on to the decision on the failures.
C12_ModuleRunnerNeverRaises ==
    /\ \A i \in 1..Len(calls) :
          calls[i] # [op |-> "raise", stage |-> "activate_modules"]
    /\ stage = "activate_modules" => exc = "none"

\* a name that is not blank and resolves to no module of the package
Unresolvable(n) == ~IsBlank(n) /\ module_name(n) \notin KnownModules

Count(q, n) == Cardinality({i \in 1..Len(q) : q[i] = n})

\* C13: in run_modules every entry consumed whose name cannot be resolved
\* is in which_ran and in failures, as a module that failed while running
\* is; no exception is propagating; and when run_modules returns every
\* non-blank entry after such a name has been attempted too.
C13_UnresolvableNameIsAFailure ==
    /\ pc \in {"rm_loop", "am_with_umount"} =>
          /\ exc = "none"
          /\ \A n \in Range(mods) :
                Unresolvable(n) =>
                    /\ Count(which_ran, n) = Count(SubSeq(mods, 1, idx), n)
                    /\ Count(failures, n) = Count(SubSeq(mods, 1, idx), n)
    /\ pc = "am_with_umount" =>
          /\ idx = Len(mods)
          /\ Range(attempts) = NonBlankPositions(mods)

C13_Witness ==
    /\ pc = "am_with_umount"
    /\ Len(mods) = 2
    /\ Unresolvable(mods[1])
    /\ which_ran = <<mods[1], <<" ", "add", "-", "user", "\t">> >>
    /\ failures = <<mods[1]>>

\* what ec2_convert puts into img_dir before it hashes
Artifacts == {File(n) : n \in {"ramdisk", "kernel", "image", "libvirt.xml"}}

\* C14: when the build is PACKAGED, no module failed, ec2_convert was called
\* exactly once, and what is at the output path holds exactly the converted
\* image, libvirt.xml, the kernel and the ramdisk, and for each of the four
\* exactly one checksum file; no checksum file has a checksum file.
C14_DeliveredArtifactSet ==
    status = "PACKAGED" =>
        /\ Len(failures) = 0
        /\ Cardinality({i \in 1..Len(calls) :
                calls[i] = [op |-> "call", stage |-> "ec2_convert"]}) = 1
        /\ out_fn.kind = IF options.compress THEN "tarball" ELSE "directory"
        /\ out_fn.files = Artifacts \cup {Sidecar(f) : f \in Artifacts}
        /\ \A f \in out_fn.files : f.md5s <= 1

C14_Witness ==
    /\ pc = "exit"
    /\ status = "PACKAGED"
    /\ out_fn.kind = "tarball"
    /\ Cardinality(out_fn.files) = 8

\* the statements of ec2_convert after the kernel and the ramdisk are found
AfterBootCheck ==
    { "ec_move_rd", "ec_move_k", "ec_with_umount", "ec_dd_off",
      "ec_with_losetup", "ec_replace_raw", "ec_tune2fs",
      "ec_straight_convert", "ec_virt_xml", "ec_hash_files", "ec_deliver",
      "ec_with_tempdir" }

Regenerated == \E i \in 1..Len(log) : log[i].op = "mkinitrd"

\* C15: in ec2_convert, mkinitrd runs in the chroot exactly when /boot has
\* neither a ramdisk nor a kernel but has a generic initrd, and the names
\* are resolved again after it; the statements that move the two files,
\* strip the partition table, label and convert are reached only with both
\* names found, and a missing name raises with img_dir and the output path
\* empty.
C15_BootFilesResolvedBeforeMoves ==
    stage = "ec2_convert" =>
        /\ pc \in {"ec_check"} \cup AfterBootCheck =>
              (Regenerated <=>
                  /\ "ramdisk" \notin boot
                  /\ "kernel" \notin boot
                  /\ "base" \in boot)
        /\ (pc = "ec_check" /\ ~Regenerated) =>
              rd_k = <<"ramdisk" \in boot, "kernel" \in boot>>
        /\ pc \in AfterBootCheck => (rd_k[1] /\ rd_k[2])
        /\ bodyExc = "ec_check" =>
              /\ ~(rd_k[1] /\ rd_k[2])
              /\ pc = "unwind"
              /\ outputs = {}
              /\ out_fn = Absent

C15_Witness ==
    /\ stage = "ec2_convert"
    /\ bodyExc = "ec_check"
    /\ Regenerated
    /\ rd_k = <<TRUE, FALSE>>

\* C16: no step changes the dictionary main() loaded, and while the
\* modules run no step changes the dictionary run_modules copies for each
\* of them, whatever a module does to the cfg it was given; each module is
\* given the value the first one was given.
C16_ModuleCannotChangeConfig ==
    [][ /\ config' = config
        /\ (pc = "rm_loop" /\ pc' = "rm_loop") =>
              /\ rm_config' = rm_config
              /\ module_cfg' # NoArgs =>
                    module_cfg'.given = without_modules(config) ]_vars

C16_Witness ==
    /\ pc = "rm_loop"
    /\ Len(attempts) = 2
    /\ Len(failures) = 0
    /\ module_cfg # NoArgs
    /\ module_cfg.left # module_cfg.given
    /\ module_cfg.given = rm_config.val

\* C17: the cfg a module's modify is given is equal to the configuration
\* as loaded: it has every key of it, 'modules' included, with an equal
\* value.
C17_ModuleGetsFullConfig ==
    (pc = "rm_loop" /\ module_cfg # NoArgs) =>
        /\ DOMAIN module_cfg.given = DOMAIN config
        /\ "modules" \in DOMAIN module_cfg.given
        /\ \A k \in DOMAIN config : module_cfg.given[k] = config[k]

\* the exit codes each call site lets pass: 0, and for fdisk 0 and 1
AllowedAt(cmd) == IF cmd = "fdisk" THEN {0, 1} ELSE {0}

\* the commands cmd_undo runs
ReleaseCommands == {"losetup -d", "umount"}

\* C18: the last util.subp call returned normally exactly when its process
\* started and exited with a code its call site allows; otherwise it raised
\* one ProcessExecutionError that carries the command and the exit code of
\* the process, and unless cmd_undo made the call the build is unwinding or
\* has ended FATAL.
C18_SubpRaisesOutsideAllowedCodes ==
    last_subp # NoCall =>
        /\ last_subp.returned <=>
              (last_subp.started /\ last_subp.rc \in AllowedAt(last_subp.cmd))
        /\ last_subp.returned => last_subp.error = NoError
        /\ ~last_subp.returned =>
              /\ last_subp.error.cmd = last_subp.cmd
              /\ last_subp.started =>
                    last_subp.error.exit_code = last_subp.rc
        /\ (~last_subp.returned /\ last_subp.cmd \notin ReleaseCommands) =>
              \/ pc = "unwind" /\ exc # "none"
              \/ pc = "exit" /\ status = "FATAL" /\ exit_status # 0

C18_Witness ==
    /\ pc = "exit"
    /\ status = "FATAL"
    /\ last_subp.cmd = "tune2fs"
    /\ last_subp.started
    /\ last_subp.rc = 1
    /\ last_subp.error = [cmd |-> "tune2fs", exit_code |-> 1]
    /\ \E i \in 1..Len(calls) :
          calls[i] = [op |-> "return", stage |-> "format_blank"]

Returned(s) ==
    \E i \in 1..Len(calls) : calls[i] = [op |-> "return", stage |-> s]

\* C19 as stated: once extract_into has returned, etc/fstab is the comment
\* line and one entry line whose fields LABEL=root, /, the file-system
\* type, defaults, 0, 0 are separated by 8, 6, 4, 3 and 2 spaces.
C19_FstabSpacingAsStated ==
    Returned("extract_into") =>
        fstab = << "# Generated on " \o time_rfc2822,
                   "LABEL=root" \o spaces(8) \o "/" \o spaces(6)
                       \o options.fs_type \o spaces(4) \o "defaults"
                       \o spaces(3) \o "0" \o spaces(2) \o "0" >>

\* C19 as amended: once extract_into has returned, whatever the tarball
\* held at etc/fstab, the file is the comment line and one entry line whose
\* fields are separated by 13 spaces, as many spaces as the file-system
\* type is shorter than 14 characters, 6, 13 and 5 spaces; before the
\* rewrite the file is what the tarball held.
C19_FstabIsGenerated ==
    /\ Returned("extract_into") =>
          /\ Len(fstab) = 2
          /\ fstab[1] = "# Generated on " \o time_rfc2822
          /\ fstab[2] = "LABEL=root" \o spaces(13) \o "/"
                            \o spaces(14 - Len(options.fs_type))
                            \o options.fs_type \o spaces(6) \o "defaults"
                            \o spaces(13) \o "0" \o spaces(5) \o "0"
    /\ pc = "ei_fix_fstab" => fstab \in TarballFstabs

C19_Witness ==
    /\ stage = "extract_into"
    /\ pc = "return"
    /\ options.fs_type = "xfs"
    /\ \E i \in 1..Len(log) :
          log[i] = [op |-> "tar", stage |-> "extract_into", arg |-> "fstab",
                    ok |-> TRUE]
    /\ fstab[2] =
          "LABEL=root             /           xfs      defaults             0     0"

LowerHexDigits ==
    {"0", "1", "2", "3", "4", "5", "6", "7", "8", "9", "a", "b", "c", "d",
     "e", "f"}

\* the digest of a sidecar line: what is before the two spaces, the name and
\* the newline
DigestOf(line) == SubSeq(line, 1, Len(line) - 4)

\* C20: the sidecar hash_file has written is one line: the digest of all
\* the bytes of the file in lowercase hexadecimal digits, two spaces, the
\* basename of the path, a newline.  Hashed again, a file with the same
\* bytes and basename gets the identical line, and a file that differs in
\* one byte gets a different digest.
C20_SidecarLine ==
    hf.pc = "done" =>
        /\ hf.sidecar = hexdigest(hf.bytes)
                            \o <<" ", " ", hf.path[Len(hf.path)], "\n">>
        /\ \A i \in 1..Len(DigestOf(hf.sidecar)) :
              DigestOf(hf.sidecar)[i] \in LowerHexDigits
        /\ Count(hf.sidecar, "\n") = 1
        /\ hf.earlier # NoEarlier =>
              /\ (/\ hf.earlier.bytes = hf.bytes
                   /\ basename(hf.earlier.path) = basename(hf.path)) =>
                    hf.earlier.sidecar = hf.sidecar
              /\ hf.earlier.bytes # hf.bytes =>
                    DigestOf(hf.earlier.sidecar) # DigestOf(hf.sidecar)

C20_Witness ==
    /\ hf.pc = "done"
    /\ Len(hf.bytes) = 3
    /\ hf.earlier # NoEarlier
    /\ hf.earlier.path # hf.path
    /\ hf.earlier.sidecar = hf.sidecar


\* C21: a cache entry that download_url has written completely is never
\* given other content afterwards, by the downloader or by the pipeline:
\* while the entry exists it holds what the fetch wrote.
C21_CacheEntryNeverRewritten ==
    \A p \in CachePaths :
        dl.fetched[p] # NoFile => dl.cache[p] = dl.fetched[p]

\* C22: download() serves a cached tarball only to a descriptor equal to
\* the one whose download() wrote the entry: a cache hit returns a file
\* written for the same source locator and the same root_file.
C22_HitServesEqualDescriptor ==
    dl.result.outcome = "hit" => dl.owner[dl.result.path] = dl.desc

\* C26: when download() has raised, no file is left at the cache path of
\* its descriptor, so that the next download() of it is a cache miss.
C26_FailedDownloadLeavesNoEntry ==
    (dl.pc = "idle" /\ dl.result.outcome = "raised") =>
        dl.cache[cache_pth(dl.desc)] = NoFile

\* the positions of `log' at which the command op was invoked
Invoked(op) == {i \in 1..Len(log) : log[i].op = op}

\* the order of ec2_convert's steps, as far as the commands invoked tell
PackagingOrder ==
    stage = "ec2_convert" =>
        /\ pc \in {"ec_move_rd", "ec_move_k"} =>
              /\ \E m \in liveMounts : m.dev = devname
              /\ Invoked("umount") = {}
        /\ pc = "ec_dd_off" =>
              /\ Invoked("umount") # {}
              /\ Invoked("losetup -d") = {}
        /\ pc \in {"ec_replace_raw", "ec_tune2fs", "ec_straight_convert"} =>
              /\ Invoked("losetup -d") # {}
              /\ \A i \in Invoked("umount"), j \in Invoked("losetup -d") :
                    i < j

\* C23: on every successful run of ec2_convert the kernel and the ramdisk
\* are moved while the root is mounted, the block copy follows the umount
\* and precedes the detach, and the raw image is replaced, tuned and
\* converted only when no mount and no loop mapping of it is live: no
\* device is mapped after these steps, so on a run that ended PACKAGED
\* none is mapped and nothing is mounted.
C23_PackagingStepOrder ==
    /\ PackagingOrder
    /\ status = "PACKAGED" => (liveMounts = {} /\ liveLoops = {})

\* the mount of the stage failed at position i of `log'
FailedMounts == {i \in Invoked("mount") : ~log[i].ok}

\* C24: a release runs only for an acquisition that succeeded: every umount
\* follows a successful mount of that directory and every `losetup -d' an
\* acquisition of that device; after a failed mount no umount is invoked,
\* and once the stage is left the loop device acquired before it has been
\* detached; after a failed create_loopback no `losetup -d' is invoked.
C24_ReleaseOnlyAfterAcquisition ==
    /\ \A j \in Invoked("umount") :
          \E i \in 1..(j - 1) :
             log[i].op = "mount" /\ log[i].ok /\ log[i].arg = log[j].arg
    /\ \A j \in Invoked("losetup -d") : \E i \in Acquired : j \in Detaches(i)
    /\ \A i \in FailedMounts :
          /\ \A j \in Invoked("umount") : j < i
          /\ StageLeft =>
                \E a \in Acquired : a < i /\ \E j \in Detaches(a) : j > i
    /\ \A i \in Invoked("losetup") :
          ~log[i].ok => \A j \in Invoked("losetup -d") : j < i

C24_Witness ==
    /\ StageLeft
    /\ \E i \in FailedMounts : log[i].stage = "ec2_convert"
    /\ Invoked("losetup -d") # {}

\* C25: two packaging runs with the same output file name and the same
\* kernel and ramdisk file names write the same name (the uuid) into
\* libvirt.xml.
C25_SameNamesSameIdentifier ==
    (/\ vx.pc = "done"
     /\ vx.earlier # NoPackaging
     /\ vx.earlier.out_fn = vx.out_fn
     /\ vx.earlier.k_fn = vx.k_fn
     /\ vx.earlier.rd_fn = vx.rd_fn) =>
        vx.earlier.name = vx.name

\* C27: the scratch directory of extract_into, activate_modules and
\* ec2_convert is deleted only when the mount beneath it is no longer live:
\* rmtree never runs over a mounted image root.
C27_ScratchDeletedOnlyUnmounted ==
    /\ ~wiped
    /\ \A i \in Invoked("del_dir") : log[i].ok

\* C28: when install_rpms' modify has returned or raised, none of the rpm
\* files it copied into <root>/tmp is left there.
C28_NoRpmLeftInTmp ==
    rpm.pc = "done" => rpm.tmp = {}
====
